---------------------------- MODULE Spec2Model ----------------------------
(***************************************************************************)
(* A model of koturn/oclc.                                                 *)
(*                                                                         *)
(*   src/main.cpp       the offline kernel compiler ("oclc")               *)
(*   src/test/main.cpp  the verifier that runs a compiled artifact         *)
(*                                                                         *)
(* Both programs are single-threaded; each is modelled as a process whose  *)
(* program counter walks through main(), one action per runtime call or    *)
(* statement group.  What the OpenCL runtime, the file system and the      *)
(* command line answer is chosen nondeterministically from small sets.     *)
(* File names are sequences of one-character strings, so that              *)
(* removeSuffix, std::to_string and string concatenation are computed.     *)
(***************************************************************************)
EXTENDS Integers, Sequences, FiniteSets, TLC

VARIABLES
    \* ---- src/main.cpp -------------------------------------------------
    opt,          \* the parsed options (kot::OptionParser op)
    args,         \* op.getArguments(): the source file names
    pc,           \* position in main()
    platformIds,  \* std::vector<cl_platform_id>
    deviceIds,    \* std::vector<cl_device_id>
    nDevice,      \* cl_uint nDevice (CL_PROGRAM_NUM_DEVICES)
    binSizes,     \* binSizes[0..nDevice)  (1-based here)
    idx,          \* the loop variable i of the write loop (0-based)
    files,        \* the artifact files the run has created: name -> content
    opens,        \* every std::ofstream the run constructed, in order
    calls,        \* every OpenCL runtime call issued, with its status
    stderr,       \* the lines written to std::cerr
    exitCode,     \* << >> while running, <<status>> once main returned
    \* ---- src/test/main.cpp ---------------------------------------------
    vpc,          \* position in the verifier's main()
    vargc,        \* argc
    hostX, hostY, hostZ,   \* the three host buffers
    devMem,       \* contents of the device buffers, by buffer name
    handles,      \* native handles: "none" | "held" | "released"
    vcalls,       \* every runtime call the verifier issued, with its status
    vout,         \* lines written to std::cout / std::cerr
    vexit         \* << >> while running, <<status>> once the process ended

oclcVars == <<opt, args, pc, platformIds, deviceIds, nDevice, binSizes, idx,
              files, opens, calls, stderr, exitCode>>
verifierVars == <<vpc, vargc, hostX, hostY, hostZ, devMem, handles, vcalls,
                  vout, vexit>>
vars == <<oclcVars, verifierVars>>

-----------------------------------------------------------------------------
(* Bounds of the model *)

\* most devices one platform reports (kNDefaultDeviceEntry is 16)
MaxDevices == 3
\* most platforms the runtime reports (kNDefaultPlatformEntry is 16)
MaxPlatforms == 1
\* longest source file name
MaxNameLen == 3
\* elements per buffer in the verifier (N is 65536 in the source)
NElems == 2

-----------------------------------------------------------------------------
(* Program constants *)

EXIT_SUCCESS == 0
EXIT_FAILURE == 1
CL_SUCCESS == 0
CL_BUILD_PROGRAM_FAILURE == -11
CL_INVALID_BUILD_OPTIONS == -43
\* std::string::npos: larger than every length that occurs
npos == 1000000

\* Non-success statuses besides the two the switch names: one the message
\* table lists (CL_INVALID_VALUE) and one it does not (a vendor code).
OtherListedCodes == {-30}
UnlistedCodes == {-9999}
FailureCodes ==
    {CL_BUILD_PROGRAM_FAILURE, CL_INVALID_BUILD_OPTIONS}
        \cup OtherListedCodes \cup UnlistedCodes
StatusCodes == {CL_SUCCESS} \cup FailureCodes

\* kErrorMessageMap of oclErrorCode.h: status code -> message
kErrorMessageMap ==
    [c \in {CL_SUCCESS, CL_BUILD_PROGRAM_FAILURE, CL_INVALID_BUILD_OPTIONS}
              \cup OtherListedCodes |-> "message"]

\* kDeviceTypeMap: the device-type names the tool knows
kDeviceTypeMap == {"all", "default", "cpu", "gpu"}

-----------------------------------------------------------------------------
(* Strings *)

NameChars == {"k", "."}
Dot == "."

RECURSIVE SeqsUpTo(_, _)
SeqsUpTo(S, n) ==
    IF n = 0 THEN {<< >>}
    ELSE LET shorter == SeqsUpTo(S, n - 1)
         IN  shorter \cup {Append(s, c) : s \in shorter, c \in S}

SourceNames == SeqsUpTo(NameChars, MaxNameLen) \ {<< >>}
\* a further source file given after the first one
OtherSource == <<"z", ".", "c">>
\* values of --output; << >> is the option's default ""
OutputNames == {<< >>, <<"o">>, <<"k", ".", "b", "i", "n">>}

Min(a, b) == IF a < b THEN a ELSE b

\* std::string::find_last_of(".") : 0-based position, or npos
FindLastOf(s, ch) ==
    LET hits == {p \in 1..Len(s) : s[p] = ch}
    IN  IF hits = {} THEN npos
        ELSE (CHOOSE p \in hits : \A q \in hits : q <= p) - 1

\* std::string::substr(pos, count) for pos <= size: count is clamped
Substr(s, pos, count) ==
    SubSeq(s, pos + 1, pos + Min(count, Len(s) - pos))

removeSuffix_FirstDot(filename) ==
    LET hits == {p \in 1..Len(filename) : filename[p] = Dot}
    IN  IF hits = {} THEN filename
        ELSE Substr(filename, 0, (CHOOSE p \in hits : \A q \in hits : p <= q) - 1)

removeSuffix(filename) == Substr(filename, 0, FindLastOf(filename, Dot))

Digits == <<"0", "1", "2", "3", "4", "5", "6", "7", "8", "9">>

\* std::to_string of a non-negative integer
RECURSIVE to_string(_)
to_string(n) ==
    IF n < 10 THEN <<Digits[n + 1]>>
    ELSE Append(to_string(n \div 10), Digits[(n % 10) + 1])

DotBin == <<".", "b", "i", "n">>


-----------------------------------------------------------------------------
(* src/main.cpp: errors *)

\* What OCLC_CHECK_ERROR / OCLC_CHECK_ERROR_WITH_MSG throw for a non-success
\* errCode.  The message is built with kErrorMessageMap.at(errCode): for a
\* code the table lacks, at() itself throws std::out_of_range, whose what()
\* names neither the code nor OpenCL.  "codes" are the numbers the text shows.
OCLC_CHECK_ERROR_WITH_MSG(errCode, msg) ==
    IF errCode \in DOMAIN kErrorMessageMap
    THEN [type |-> "runtime_error", codes |-> {errCode},
          text |-> kErrorMessageMap[errCode], extra |-> msg]
    ELSE [type |-> "out_of_range", codes |-> {}, text |-> "at", extra |-> ""]

OCLC_CHECK_ERROR(errCode) == OCLC_CHECK_ERROR_WITH_MSG(errCode, "")

\* kDeviceTypeMap.at(name) for a name the map lacks
DeviceTypeOutOfRange ==
    [type |-> "out_of_range", codes |-> {}, text |-> "at", extra |-> ""]

\* catch (const std::exception& e): print e.what(), return EXIT_FAILURE
Catch(e) ==
    /\ stderr' = Append(stderr, e)
    /\ exitCode' = <<EXIT_FAILURE>>
    /\ pc' = "done"

Return(status) ==
    /\ exitCode' = <<status>>
    /\ pc' = "done"

\* A runtime call that is handed device handles: devs are the positions of
\* deviceIds (0-based) the runtime reads them from
CallWithDevices(api, errCode, devs) ==
    calls' = Append(calls, [api |-> api, err |-> errCode, devs |-> devs])

Call(api, errCode) == CallWithDevices(api, errCode, {})

\* the runtime calls issued so far under the name api
CallsOf(api) == {k \in DOMAIN calls : calls[k].api = api}

-----------------------------------------------------------------------------
(* src/main.cpp: main() *)

ArgLists ==
    {<< >>} \cup {<<a>> : a \in SourceNames}
            \cup {<<a, OtherSource>> : a \in SourceNames}

Options ==
    [help : BOOLEAN, list : BOOLEAN, deviceType : {"gpu", "tpu"},
     output : OutputNames, platform : 0..(MaxPlatforms - 1),
     device : 0..(MaxDevices - 1), fsyntaxOnly : BOOLEAN]

\* the compiler is not running
OclcOff ==
    /\ opt = [help |-> FALSE, list |-> FALSE, deviceType |-> "default",
              output |-> << >>, platform |-> 0, device |-> 0,
              fsyntaxOnly |-> FALSE]
    /\ args = << >>
    /\ pc = "off"
    /\ platformIds = << >>
    /\ deviceIds = << >>
    /\ nDevice = 0
    /\ binSizes = << >>
    /\ idx = 0
    /\ files = << >>
    /\ opens = << >>
    /\ calls = << >>
    /\ stderr = << >>
    /\ exitCode = << >>

\* lines 191-205: the options are parsed, nothing else has happened
OclcStart ==
    /\ opt \in Options
    /\ args \in ArgLists
    /\ pc = "help"
    /\ platformIds = << >>
    /\ deviceIds = << >>
    /\ nDevice = 0
    /\ binSizes = << >>
    /\ idx = 0
    /\ files = << >>
    /\ opens = << >>
    /\ calls = << >>
    /\ stderr = << >>
    /\ exitCode = << >>

\* lines 208-211
ShowHelp ==
    /\ pc = "help"
    /\ IF opt.help THEN Return(EXIT_SUCCESS) ELSE pc' = "platforms" /\ UNCHANGED exitCode
    /\ UNCHANGED <<opt, args, platformIds, deviceIds, nDevice, binSizes, idx,
                   files, opens, calls, stderr>>
    /\ UNCHANGED verifierVars

\* lines 214-215, getPlatformIds
GetPlatformIds ==
    /\ pc = "platforms"
    /\ \E errCode \in StatusCodes, n \in 1..MaxPlatforms :
          /\ Call("clGetPlatformIDs", errCode)
          /\ IF errCode # CL_SUCCESS
             THEN Catch(OCLC_CHECK_ERROR(errCode)) /\ UNCHANGED platformIds
             ELSE /\ platformIds' = [k \in 1..n |-> k]
                  /\ pc' = IF opt.list THEN "list" ELSE "args"
                  /\ UNCHANGED <<stderr, exitCode>>
    /\ UNCHANGED <<opt, args, deviceIds, nDevice, binSizes, idx, files, opens>>
    /\ UNCHANGED verifierVars

\* lines 215-218, showInfo: the map lookup, then the information queries
ShowInfo ==
    /\ pc = "list"
    /\ IF opt.deviceType \notin kDeviceTypeMap
       THEN Catch(DeviceTypeOutOfRange) /\ UNCHANGED calls
       ELSE \E errCode \in StatusCodes :
               /\ Call("showInfo", errCode)
               /\ IF errCode # CL_SUCCESS
                  THEN Catch(OCLC_CHECK_ERROR(errCode))
                  ELSE Return(EXIT_SUCCESS) /\ UNCHANGED stderr
    /\ UNCHANGED <<opt, args, platformIds, deviceIds, nDevice, binSizes, idx,
                   files, opens>>
    /\ UNCHANGED verifierVars

NoSourceLine ==
    [type |-> "message", codes |-> {},
     text |-> "Please specify only one or more source file", extra |-> ""]

\* lines 221-225
GetArguments ==
    /\ pc = "args"
    /\ IF Len(args) < 1
       THEN /\ stderr' = Append(stderr, NoSourceLine)
            /\ Return(EXIT_FAILURE)
       ELSE pc' = "devices" /\ UNCHANGED <<stderr, exitCode>>
    /\ UNCHANGED <<opt, args, platformIds, deviceIds, nDevice, binSizes, idx,
                   files, opens, calls>>
    /\ UNCHANGED verifierVars

\* lines 227-231, getDeviceIds(platformIds[pi], ...).  A platform index past
\* the enumerated platforms hands the runtime an indeterminate handle; the
\* call's answer is unconstrained either way.
GetDeviceIds ==
    /\ pc = "devices"
    /\ IF opt.deviceType \notin kDeviceTypeMap
       THEN Catch(DeviceTypeOutOfRange) /\ UNCHANGED <<calls, deviceIds>>
       ELSE \E errCode \in StatusCodes, n \in 1..MaxDevices :
               /\ Call("clGetDeviceIDs", errCode)
               /\ IF errCode # CL_SUCCESS
                  THEN Catch(OCLC_CHECK_ERROR(errCode)) /\ UNCHANGED deviceIds
                  ELSE /\ deviceIds' = [k \in 1..n |-> k]
                       /\ pc' = "context"
                       /\ UNCHANGED <<stderr, exitCode>>
    /\ UNCHANGED <<opt, args, platformIds, nDevice, binSizes, idx, files, opens>>
    /\ UNCHANGED verifierVars

\* lines 236 and 258: the runtime is handed the count deviceIds.size() and
\* the address &deviceIds[di], so it reads that many handles from position
\* di on.  The vector's storage holds kNDefaultDeviceEntry entries, of
\* which the first deviceIds.size() are the enumerated devices; what the
\* runtime makes of the others is its answer, which is unconstrained here.
DevicesHanded(di, count) == di..(di + count - 1)

\* lines 234-237, clCreateContext(nullptr, deviceIds.size(), &deviceIds[di], ...)
CreateContext ==
    /\ pc = "context"
    /\ \E errCode \in StatusCodes :
          /\ CallWithDevices("clCreateContext", errCode,
                             DevicesHanded(opt.device, Len(deviceIds)))
          /\ IF errCode # CL_SUCCESS
             THEN Catch(OCLC_CHECK_ERROR(errCode))
             ELSE pc' = "sources" /\ UNCHANGED <<stderr, exitCode>>
    /\ UNCHANGED <<opt, args, platformIds, deviceIds, nDevice, binSizes, idx,
                   files, opens>>
    /\ UNCHANGED verifierVars

ReadFailed(filename) ==
    [type |-> "runtime_error", codes |-> {}, text |-> "Failed to read file: ",
     extra |-> "file name"]

\* lines 239-246, readSource(op.getArguments()): the files are read in
\* order; the first one that cannot be opened throws
ReadSource ==
    /\ pc = "sources"
    /\ \E unreadable \in 0..Len(args) :
          IF unreadable > 0
          THEN Catch(ReadFailed(args[unreadable]))
          ELSE pc' = "program" /\ UNCHANGED <<stderr, exitCode>>
    /\ UNCHANGED <<opt, args, platformIds, deviceIds, nDevice, binSizes, idx,
                   files, opens, calls>>
    /\ UNCHANGED verifierVars

\* lines 247-255
CreateProgramWithSource ==
    /\ pc = "program"
    /\ \E errCode \in StatusCodes :
          /\ Call("clCreateProgramWithSource", errCode)
          /\ IF errCode # CL_SUCCESS
             THEN Catch(OCLC_CHECK_ERROR(errCode))
             ELSE pc' = "build" /\ UNCHANGED <<stderr, exitCode>>
    /\ UNCHANGED <<opt, args, platformIds, deviceIds, nDevice, binSizes, idx,
                   files, opens>>
    /\ UNCHANGED verifierVars

BuildThrows_NamedOnly(errCode) ==
    errCode \in {CL_BUILD_PROGRAM_FAILURE, CL_INVALID_BUILD_OPTIONS}

\* lines 259-275: every arm of the switch but CL_SUCCESS ends in a macro
\* that throws, since errCode != CL_SUCCESS there
BuildThrows(errCode) == errCode # CL_SUCCESS

\* lines 262-274: what the arms throw.  The build log is fetched into a
\* 2048-byte array by a call whose status is ignored; when that call fails
\* the array is read uninitialised and the text is indeterminate.
BuildException(errCode, logFetched) ==
    IF errCode = CL_BUILD_PROGRAM_FAILURE
    THEN OCLC_CHECK_ERROR_WITH_MSG(errCode,
            IF logFetched THEN "build log" ELSE "indeterminate")
    ELSE OCLC_CHECK_ERROR(errCode)

SyntaxOnly_Ignored(o) == FALSE

\* line 276
SyntaxOnly(o) == o.fsyntaxOnly

\* lines 258-278, clBuildProgram, the switch and the syntax-only return
BuildProgram ==
    /\ pc = "build"
    /\ \E errCode \in StatusCodes, logFetched \in BOOLEAN :
          /\ errCode # CL_BUILD_PROGRAM_FAILURE => logFetched
          /\ CallWithDevices("clBuildProgram", errCode,
                             DevicesHanded(opt.device, Len(deviceIds)))
          /\ IF BuildThrows(errCode)
             THEN Catch(BuildException(errCode, logFetched))
             ELSE IF SyntaxOnly(opt)
                  THEN Return(EXIT_SUCCESS) /\ UNCHANGED stderr
                  ELSE pc' = "numDevices" /\ UNCHANGED <<stderr, exitCode>>
    /\ UNCHANGED <<opt, args, platformIds, deviceIds, nDevice, binSizes, idx,
                   files, opens>>
    /\ UNCHANGED verifierVars


\* lines 281-283, CL_PROGRAM_NUM_DEVICES: the devices the program was built
\* for, which the runtime keeps equal to the count handed to clBuildProgram
GetNumDevices ==
    /\ pc = "numDevices"
    /\ \E errCode \in StatusCodes :
          /\ Call("clGetProgramInfo(NUM_DEVICES)", errCode)
          /\ IF errCode # CL_SUCCESS
             THEN Catch(OCLC_CHECK_ERROR(errCode)) /\ UNCHANGED nDevice
             ELSE /\ nDevice' = Len(deviceIds)
                  /\ pc' = "binSizes"
                  /\ UNCHANGED <<stderr, exitCode>>
    /\ UNCHANGED <<opt, args, platformIds, deviceIds, binSizes, idx, files, opens>>
    /\ UNCHANGED verifierVars

\* sizes the runtime reports; 0 is "no binary for this device"
BinSizeValues == {0, 1}

\* lines 285-287, CL_PROGRAM_BINARY_SIZES
GetBinarySizes ==
    /\ pc = "binSizes"
    /\ \E errCode \in StatusCodes, sizes \in [1..nDevice -> BinSizeValues] :
          /\ errCode # CL_SUCCESS => \A k \in 1..nDevice : sizes[k] = 0
          /\ Call("clGetProgramInfo(BINARY_SIZES)", errCode)
          /\ IF errCode # CL_SUCCESS
             THEN Catch(OCLC_CHECK_ERROR(errCode)) /\ UNCHANGED binSizes
             ELSE /\ binSizes' = sizes
                  /\ pc' = "binaries"
                  /\ UNCHANGED <<stderr, exitCode>>
    /\ UNCHANGED <<opt, args, platformIds, deviceIds, nDevice, idx, files, opens>>
    /\ UNCHANGED verifierVars

\* lines 290-297, the buffers (nullptr for size 0), CL_PROGRAM_BINARIES and
\* the start of the write loop
GetBinaries ==
    /\ pc = "binaries"
    /\ \E errCode \in StatusCodes :
          /\ Call("clGetProgramInfo(BINARIES)", errCode)
          /\ IF errCode # CL_SUCCESS
             THEN Catch(OCLC_CHECK_ERROR(errCode)) /\ UNCHANGED idx
             ELSE /\ idx' = 0
                  /\ pc' = "write"
                  /\ UNCHANGED <<stderr, exitCode>>
    /\ UNCHANGED <<opt, args, platformIds, deviceIds, nDevice, binSizes, files,
                   opens>>
    /\ UNCHANGED verifierVars

NoBinary_Never(size) == FALSE

\* lines 292 and 299: bins[i] == nullptr exactly when binSizes[i] == 0
NoBinary(size) == size = 0

IndexSuffix_MoreThanTwo(n) == n > 2

\* line 303
IndexSuffix(n) == n > 1

DefaultName_Always(output) == TRUE

\* line 302: op.get("output") == ""
DefaultName(output) == output = << >>

\* line 297: args[0]
FirstSource(a) == a[1]

\* lines 297 and 302-305: the file name of device i of n
FileName(a, output, n, i) ==
    LET basename == removeSuffix(FirstSource(a))
        filename == IF DefaultName(output) THEN basename \o DotBin ELSE output
    IN  IF IndexSuffix(n) THEN filename \o <<Dot>> \o to_string(i) ELSE filename

OpenFailedLine ==
    [type |-> "message", codes |-> {}, text |-> "Failed to open: ",
     extra |-> "file name"]

\* lines 298-312, one iteration of the write loop.  Whether the file can be
\* opened is the file system's answer; an opened std::ofstream has created
\* (or truncated) the file.
WriteBinary ==
    /\ pc = "write"
    /\ idx < nDevice
    /\ idx' = idx + 1
    /\ IF NoBinary(binSizes[idx + 1])
       THEN UNCHANGED <<files, opens, stderr>>
       ELSE LET filename == FileName(args, opt.output, nDevice, idx)
            IN  \E isOpen \in BOOLEAN :
                   /\ opens' = Append(opens,
                          [dev |-> idx, name |-> filename, ok |-> isOpen])
                   /\ IF isOpen
                      THEN /\ files' = (filename :> [dev |-> idx,
                                            size |-> binSizes[idx + 1]]) @@ files
                           /\ UNCHANGED stderr
                      ELSE /\ stderr' = Append(stderr, OpenFailedLine)
                           /\ UNCHANGED files
    /\ UNCHANGED <<opt, args, pc, platformIds, deviceIds, nDevice, binSizes,
                   calls, exitCode>>
    /\ UNCHANGED verifierVars

\* lines 312 and 318: the loop is over, main returns EXIT_SUCCESS
ReturnSuccess ==
    /\ pc = "write"
    /\ idx = nDevice
    /\ Return(EXIT_SUCCESS)
    /\ UNCHANGED <<opt, args, platformIds, deviceIds, nDevice, binSizes, idx,
                   files, opens, calls, stderr>>
    /\ UNCHANGED verifierVars

NextOclc ==
    \/ ShowHelp
    \/ GetPlatformIds
    \/ ShowInfo
    \/ GetArguments
    \/ GetDeviceIds
    \/ CreateContext
    \/ ReadSource
    \/ CreateProgramWithSource
    \/ BuildProgram
    \/ GetNumDevices
    \/ GetBinarySizes
    \/ GetBinaries
    \/ WriteBinary
    \/ ReturnSuccess


-----------------------------------------------------------------------------
(* src/test/main.cpp: values *)

\* A float is a number on a grid whose step is the tolerance of line 252,
\* or NaN.  Arithmetic with NaN gives NaN; every ordered comparison with NaN
\* is false.
Float(v) == [nan |-> FALSE, v |-> v]
NaN == [nan |-> TRUE, v |-> 0]
FAdd(a, b) == IF a.nan \/ b.nan THEN NaN ELSE Float(a.v + b.v)
FSub(a, b) == IF a.nan \/ b.nan THEN NaN ELSE Float(a.v - b.v)
FAbs(a) == IF a.nan THEN NaN ELSE Float(IF a.v < 0 THEN -a.v ELSE a.v)
FGreater(a, t) == ~a.nan /\ a.v > t
FLessEq(a, t) == ~a.nan /\ a.v <= t

\* 1.0e-5, the unit of the grid
Tolerance == 1

\* what mt() yields, cast to float: finite and non-negative
InputValues == {Float(0), Float(1)}
\* what a kernel may leave in an output element whose inputs sum to s
OutputValues(s) == {s, FAdd(s, Float(1)), FAdd(s, Float(2)), NaN}

Elems == 0..(NElems - 1)
Buffers == {"deviceX", "deviceY", "deviceZ"}
Handles == {"context", "cmdQueue", "program", "kernel"} \cup Buffers

\* the statuses the runtime answers the verifier with
VerifierCodes == {CL_SUCCESS} \cup OtherListedCodes

-----------------------------------------------------------------------------
(* src/test/main.cpp: main() *)

\* the verifier is not running
VerifierOff ==
    /\ vpc = "off"
    /\ vargc = 0
    /\ hostX = << >>
    /\ hostY = << >>
    /\ hostZ = << >>
    /\ devMem = [b \in {"deviceX", "deviceY", "deviceZ"} |-> << >>]
    /\ handles = << >>
    /\ vcalls = << >>
    /\ vout = << >>
    /\ vexit = << >>

\* line 166: the process has started
VerifierStart ==
    /\ vpc = "argc"
    /\ vargc \in {1, 2}
    /\ hostX = << >>
    /\ hostY = << >>
    /\ hostZ = << >>
    /\ devMem = [b \in Buffers |-> << >>]
    /\ handles = [h \in Handles |-> "none"]
    /\ vcalls = << >>
    /\ vout = << >>
    /\ vexit = << >>

VLine(text, elems) == [text |-> text, at |-> elems]

VCall(api, errCode) == vcalls' = Append(vcalls, [api |-> api, err |-> errCode])

\* the std::unique_ptr destructors: every handle still owned is released
ReleaseAll == [h \in Handles |-> IF handles[h] = "held" THEN "released" ELSE handles[h]]

Failed_Never(errCode) == FALSE

\* the condition of every KOTLIB_THROW_IF: errCode != CL_SUCCESS
Failed(errCode) == errCode # CL_SUCCESS

\* lines 246-249: the exception leaves the try block (the handles owned so
\* far are released), its text is printed and main returns EXIT_FAILURE
VCatch(text) ==
    /\ vout' = Append(vout, VLine(text, {}))
    /\ handles' = ReleaseAll
    /\ vexit' = <<EXIT_FAILURE>>
    /\ vpc' = "done"

\* lines 171-174
CheckArgc ==
    /\ vpc = "argc"
    /\ IF vargc < 2
       THEN /\ vout' = Append(vout,
                  VLine("Please specify only one kernel binary file", {}))
            /\ vexit' = <<EXIT_FAILURE>>
            /\ vpc' = "done"
       ELSE vpc' = "fill" /\ UNCHANGED <<vout, vexit>>
    /\ UNCHANGED <<vargc, hostX, hostY, hostZ, devMem, handles, vcalls>>
    /\ UNCHANGED oclcVars

\* lines 176-185
FillHostBuffers ==
    /\ vpc = "fill"
    /\ hostX' \in [Elems -> InputValues]
    /\ hostY' \in [Elems -> InputValues]
    /\ hostZ' = [e \in Elems |-> Float(0)]
    /\ vpc' = "platforms"
    /\ UNCHANGED <<vargc, devMem, handles, vcalls, vout, vexit>>
    /\ UNCHANGED oclcVars

\* A runtime call that owns no handle: issue it, throw on failure
VStep(at, api, text, next) ==
    /\ vpc = at
    /\ \E errCode \in VerifierCodes :
          /\ VCall(api, errCode)
          /\ IF Failed(errCode)
             THEN VCatch(text)
             ELSE vpc' = next /\ UNCHANGED <<vout, vexit, handles>>

\* A runtime call whose result a std::unique_ptr owns: a failing call
\* returns NULL, which the unique_ptr never releases
VCreate(at, api, text, h, next) ==
    /\ vpc = at
    /\ \E errCode \in VerifierCodes :
          /\ VCall(api, errCode)
          /\ IF Failed(errCode)
             THEN VCatch(text)
             ELSE /\ handles' = [handles EXCEPT ![h] = "held"]
                  /\ vpc' = next
                  /\ UNCHANGED <<vout, vexit>>

\* line 188
VGetPlatformIds ==
    /\ VStep("platforms", "clGetPlatformIDs", "clGetPlatformIDs() failed", "devices")
    /\ UNCHANGED <<vargc, hostX, hostY, hostZ, devMem>>
    /\ UNCHANGED oclcVars

\* line 189
VGetDeviceIds ==
    /\ VStep("devices", "clGetDeviceIDs", "clGetDeviceIDs() failed", "context")
    /\ UNCHANGED <<vargc, hostX, hostY, hostZ, devMem>>
    /\ UNCHANGED oclcVars

\* lines 192-194
VCreateContext ==
    /\ VCreate("context", "clCreateContext", "clCreateContext() failed",
               "context", "queue")
    /\ UNCHANGED <<vargc, hostX, hostY, hostZ, devMem>>
    /\ UNCHANGED oclcVars

\* lines 195-197
VCreateCommandQueue ==
    /\ VCreate("queue", "clCreateCommandQueue", "clCreateCommandQueue() failed",
               "cmdQueue", "buffers")
    /\ UNCHANGED <<vargc, hostX, hostY, hostZ, devMem>>
    /\ UNCHANGED oclcVars

\* lines 199-204: three clCreateBuffer calls whose errCode is overwritten
\* before anything tests it; a failed call leaves its unique_ptr null
CreateBuffers ==
    /\ vpc = "buffers"
    /\ \E err \in [Buffers -> VerifierCodes] :
          /\ vcalls' = vcalls \o
                <<[api |-> "clCreateBuffer(deviceX)", err |-> err["deviceX"]],
                  [api |-> "clCreateBuffer(deviceY)", err |-> err["deviceY"]],
                  [api |-> "clCreateBuffer(deviceZ)", err |-> err["deviceZ"]]>>
          /\ handles' = [h \in Handles |->
                          IF h \in Buffers /\ err[h] = CL_SUCCESS
                          THEN "held" ELSE handles[h]]
    /\ vpc' = "writeX"
    /\ UNCHANGED <<vargc, hostX, hostY, hostZ, devMem, vout, vexit>>
    /\ UNCHANGED oclcVars

\* lines 206-211, a blocking clEnqueueWriteBuffer.  For a buffer that is
\* not a valid memory object the runtime answers CL_INVALID_MEM_OBJECT.
WriteBuffer(at, b, host, next) ==
    /\ vpc = at
    /\ \E errCode \in VerifierCodes :
          /\ handles[b] # "held" => errCode # CL_SUCCESS
          /\ VCall("clEnqueueWriteBuffer(" \o b \o ")", errCode)
          /\ IF Failed(errCode)
             THEN VCatch("clEnqueueWriteBuffer() failed") /\ UNCHANGED devMem
             ELSE /\ devMem' = [devMem EXCEPT ![b] = host]
                  /\ vpc' = next
                  /\ UNCHANGED <<vout, vexit, handles>>
    /\ UNCHANGED <<vargc, hostX, hostY, hostZ>>

WriteX ==
    /\ WriteBuffer("writeX", "deviceX", hostX, "writeY")
    /\ UNCHANGED oclcVars

WriteY ==
    /\ WriteBuffer("writeY", "deviceY", hostY, "writeZ")
    /\ UNCHANGED oclcVars

WriteZ ==
    /\ WriteBuffer("writeZ", "deviceZ", hostZ, "open")
    /\ UNCHANGED oclcVars

\* lines 213-219: an artifact file that cannot be opened ends the process
\* with std::exit, which runs no destructor of main's locals
ReadKernelBinary ==
    /\ vpc = "open"
    /\ \E isOpen \in BOOLEAN :
          IF isOpen
          THEN vpc' = "program" /\ UNCHANGED <<vout, vexit>>
          ELSE /\ vout' = Append(vout, VLine("Failed to kernel binary: ", {}))
               /\ vexit' = <<EXIT_FAILURE>>
               /\ vpc' = "done"
    /\ UNCHANGED <<vargc, hostX, hostY, hostZ, devMem, handles, vcalls>>
    /\ UNCHANGED oclcVars

\* lines 221-226
CreateProgramWithBinary ==
    /\ VCreate("program", "clCreateProgramWithBinary",
               "clCreateProgramWithBinary() failed", "program", "kernel")
    /\ UNCHANGED <<vargc, hostX, hostY, hostZ, devMem>>
    /\ UNCHANGED oclcVars

\* lines 230-232
CreateKernel ==
    /\ VCreate("kernel", "clCreateKernel", "clCreateKernel() failed",
               "kernel", "setArgs")
    /\ UNCHANGED <<vargc, hostX, hostY, hostZ, devMem>>
    /\ UNCHANGED oclcVars

\* lines 234 and 119-154: the arguments in binding order
KernelArgs == <<"deviceZ", "deviceX", "deviceY", "N">>

\* setKernelArgs binds the arguments one by one and stops at the first
\* clSetKernelArg that fails; failAt = 0 when none does
SetKernelArgsCalls(failAt) ==
    [k \in 1..(IF failAt = 0 THEN Len(KernelArgs) ELSE failAt) |->
        [api |-> "clSetKernelArg(" \o KernelArgs[k] \o ")",
         err |-> IF k = failAt THEN CHOOSE c \in OtherListedCodes : TRUE
                 ELSE CL_SUCCESS]]

\* lines 234-235
SetKernelArgs ==
    /\ vpc = "setArgs"
    /\ \E failAt \in 0..Len(KernelArgs) :
          /\ vcalls' = vcalls \o SetKernelArgsCalls(failAt)
          /\ IF Failed(IF failAt = 0 THEN CL_SUCCESS
                       ELSE CHOOSE c \in OtherListedCodes : TRUE)
             THEN VCatch("setKernelArgs() failed")
             ELSE vpc' = "enqueue" /\ UNCHANGED <<vout, vexit, handles>>
    /\ UNCHANGED <<vargc, hostX, hostY, hostZ, devMem>>
    /\ UNCHANGED oclcVars

\* lines 236-237
EnqueueTask ==
    /\ VStep("enqueue", "clEnqueueTask", "clEnqueueTask() failed", "flush")
    /\ UNCHANGED <<vargc, hostX, hostY, hostZ, devMem>>
    /\ UNCHANGED oclcVars

\* lines 239-240
Flush ==
    /\ VStep("flush", "clFlush", "clFlush() failed", "finish")
    /\ UNCHANGED <<vargc, hostX, hostY, hostZ, devMem>>
    /\ UNCHANGED oclcVars

\* lines 241-242: when clFinish returns CL_SUCCESS the task has run; what
\* the artifact's kernel stored in deviceZ is up to the artifact
Finish ==
    /\ vpc = "finish"
    /\ \E errCode \in VerifierCodes :
          /\ VCall("clFinish", errCode)
          /\ IF Failed(errCode)
             THEN VCatch("clFinish() failed") /\ UNCHANGED devMem
             ELSE /\ \E out \in [Elems -> UNION {OutputValues(FAdd(x, y)) :
                                                   x \in InputValues, y \in InputValues}] :
                        /\ \A e \in Elems :
                              out[e] \in OutputValues(FAdd(hostX[e], hostY[e]))
                        /\ devMem' = [devMem EXCEPT !["deviceZ"] = out]
                  /\ vpc' = "read"
                  /\ UNCHANGED <<vout, vexit, handles>>
    /\ UNCHANGED <<vargc, hostX, hostY, hostZ>>
    /\ UNCHANGED oclcVars

\* lines 244-246: the blocking read-back; then the try block ends and the
\* handles are released
ReadBuffer ==
    /\ vpc = "read"
    /\ \E errCode \in VerifierCodes :
          /\ VCall("clEnqueueReadBuffer(deviceZ)", errCode)
          /\ IF Failed(errCode)
             THEN VCatch("clEnqueueReadBuffer() failed") /\ UNCHANGED hostZ
             ELSE /\ hostZ' = devMem["deviceZ"]
                  /\ handles' = ReleaseAll
                  /\ vpc' = "verify"
                  /\ UNCHANGED <<vout, vexit>>
    /\ UNCHANGED <<vargc, hostX, hostY, devMem>>
    /\ UNCHANGED oclcVars

\* line 252: std::abs(hostX[i] + hostY[i] - hostZ[i]) > 1.0e-5
Mismatch(e) ==
    FGreater(FAbs(FSub(FAdd(hostX[e], hostY[e]), hostZ[e])), Tolerance)

\* lines 251-259: the loop stops at the first element that mismatches
Verify ==
    /\ vpc = "verify"
    /\ LET bad == {e \in Elems : Mismatch(e)}
       IN  IF bad # {}
           THEN LET first == CHOOSE e \in bad : \A f \in bad : e <= f
                IN  /\ vout' = Append(vout,
                          VLine("Result verification failed at element", {first}))
                    /\ vexit' = <<EXIT_FAILURE>>
           ELSE /\ vout' = Append(vout, VLine("Test PASSED", {}))
                /\ vexit' = <<EXIT_SUCCESS>>
    /\ vpc' = "done"
    /\ UNCHANGED <<vargc, hostX, hostY, hostZ, devMem, handles, vcalls>>
    /\ UNCHANGED oclcVars

NextVerifier ==
    \/ CheckArgc
    \/ FillHostBuffers
    \/ VGetPlatformIds
    \/ VGetDeviceIds
    \/ VCreateContext
    \/ VCreateCommandQueue
    \/ CreateBuffers
    \/ WriteX
    \/ WriteY
    \/ WriteZ
    \/ ReadKernelBinary
    \/ CreateProgramWithBinary
    \/ CreateKernel
    \/ SetKernelArgs
    \/ EnqueueTask
    \/ Flush
    \/ Finish
    \/ ReadBuffer
    \/ Verify

-----------------------------------------------------------------------------
(* Specifications *)

InitOclc == OclcStart /\ VerifierOff

InitVerifier == VerifierStart /\ OclcOff

\* a run of the compiler
SpecOclc == InitOclc /\ [][NextOclc]_vars

\* a run of the verifier
SpecVerifier == InitVerifier /\ [][NextVerifier]_vars


-----------------------------------------------------------------------------
(* What the compiler claims are stated with *)

Range(f) == {f[k] : k \in DOMAIN f}

\* the run has ended / has ended by leaving the write loop (line 318)
Done == pc = "done"
ExtractionCalls ==
    CallsOf("clGetProgramInfo(NUM_DEVICES)")
        \cup CallsOf("clGetProgramInfo(BINARY_SIZES)")
        \cup CallsOf("clGetProgramInfo(BINARIES)")
BuildStatuses == {calls[k].err : k \in CallsOf("clBuildProgram")}
InWriteLoop ==
    \E k \in CallsOf("clGetProgramInfo(BINARIES)") : calls[k].err = CL_SUCCESS
LoopFinished == Done /\ InWriteLoop

\* devices (0-based) whose reported binary size is > 0
NonEmptyDevices == {d \in 0..(Len(binSizes) - 1) : binSizes[d + 1] > 0}
\* devices whose artifact file was opened / could not be opened
OpenedDevices == {opens[k].dev : k \in {j \in DOMAIN opens : opens[j].ok}}
FailedDevices == {opens[k].dev : k \in {j \in DOMAIN opens : ~opens[j].ok}}

\* d is the decimal numeral of n: digits only, no leading zero, value n
RECURSIVE NumeralValue(_)
NumeralValue(d) ==
    IF d = << >> THEN 0
    ELSE 10 * NumeralValue(SubSeq(d, 1, Len(d) - 1))
           + ((CHOOSE v \in 1..10 : Digits[v] = d[Len(d)]) - 1)
IsNumeralOf(d, n) ==
    /\ Len(d) >= 1
    /\ \A k \in 1..Len(d) : d[k] \in Range(Digits)
    /\ Len(d) > 1 => d[1] # "0"
    /\ NumeralValue(d) = n

\* sfx is the device-index part of a name for device dev of n devices
IsIndexPart(sfx, n, dev) ==
    IF n > 1
    THEN Len(sfx) >= 2 /\ sfx[1] = Dot /\ IsNumeralOf(Tail(sfx), dev)
    ELSE sfx = << >>

\* m characters of a are kept when a is cut at its last '.', all of them
\* when a has no '.'
CutsAtLastDot(a, m) ==
    IF Dot \in Range(a)
    THEN m < Len(a) /\ a[m + 1] = Dot /\ \A k \in (m + 2)..Len(a) : a[k] # Dot
    ELSE m = Len(a)

-----------------------------------------------------------------------------
(* C1 *)

\* C1, as stated: once the write loop has run, the number of artifact files
\* equals the number of devices whose reported binary size is > 0, and is at
\* most the number of devices.
C1_FilesEqualNonEmptyDevices ==
    LoopFinished =>
        /\ Cardinality(DOMAIN files) = Cardinality(NonEmptyDevices)
        /\ Cardinality(DOMAIN files) <= nDevice

\* C1, amended: the number of artifact files never exceeds the number of
\* devices with a binary size > 0, which never exceeds n; once the write
\* loop has run, every device with a size > 0 had its file opened once, and
\* the number of files equals the number of those devices whose file could
\* be opened; a run that ends before the write loop persists no file.
C1_FilesEqualOpenedNonEmptyDevices ==
    /\ Cardinality(DOMAIN files) <= Cardinality(NonEmptyDevices)
    /\ Cardinality(NonEmptyDevices) <= nDevice
    /\ LoopFinished =>
          /\ OpenedDevices \cup FailedDevices = NonEmptyDevices
          /\ OpenedDevices \cap FailedDevices = {}
          /\ Len(opens) = Cardinality(NonEmptyDevices)
          /\ Cardinality(DOMAIN files) = Cardinality(OpenedDevices)
    /\ (Done /\ ~InWriteLoop) => DOMAIN files = {}

\* C1 witness: a finished run over three devices, one without a binary, one
\* whose file was written and one whose file could not be opened
C1_Witness ==
    /\ LoopFinished
    /\ nDevice = 3
    /\ Cardinality(NonEmptyDevices) = 2
    /\ Cardinality(DOMAIN files) = 1
    /\ FailedDevices # {}

-----------------------------------------------------------------------------
(* C2 *)

\* C2: with --fsyntax-only no artifact file is ever opened or written and
\* no binary is asked for, whatever the build answered; once the build has
\* answered CL_SUCCESS the run has ended with EXIT_SUCCESS.
C2_SyntaxOnlyWritesNothing ==
    opt.fsyntaxOnly =>
        /\ DOMAIN files = {}
        /\ opens = << >>
        /\ ExtractionCalls = {}
        /\ CL_SUCCESS \in BuildStatuses => Done /\ exitCode = <<EXIT_SUCCESS>>

\* C2 witness: a syntax-only run whose build succeeded
C2_Witness ==
    /\ opt.fsyntaxOnly
    /\ CL_SUCCESS \in BuildStatuses
    /\ Done
    /\ exitCode = <<EXIT_SUCCESS>>

-----------------------------------------------------------------------------
(* C3 *)

\* C3: a binary is asked for, and a file opened, only after the build
\* answered CL_SUCCESS; a build that answered anything else has ended the
\* run with EXIT_FAILURE and no file; so has a failed platform or device
\* enumeration, and so does a compile run (neither --help nor --list) that
\* names no source file.
C3_ExtractionOnlyAfterSuccess ==
    /\ (ExtractionCalls # {} \/ opens # << >> \/ DOMAIN files # {})
          => BuildStatuses = {CL_SUCCESS}
    /\ BuildStatuses \ {CL_SUCCESS} # {} =>
          /\ Done /\ exitCode = <<EXIT_FAILURE>>
          /\ DOMAIN files = {} /\ opens = << >> /\ ExtractionCalls = {}
    /\ \A k \in CallsOf("clGetPlatformIDs") \cup CallsOf("clGetDeviceIDs")
                  \cup CallsOf("showInfo") :
          calls[k].err # CL_SUCCESS => Done /\ exitCode = <<EXIT_FAILURE>>
    /\ (Done /\ Len(args) < 1 /\ ~opt.help /\ ~opt.list)
          => exitCode = <<EXIT_FAILURE>>

\* C3 witness: a build that answered a status the switch does not name
C3_Witness ==
    /\ Done
    /\ BuildStatuses \cap OtherListedCodes # {}
    /\ exitCode = <<EXIT_FAILURE>>

-----------------------------------------------------------------------------
(* C6 *)

\* C6, as stated: without --output, the file of device dev is named
\* <basename>[.<dev>].bin, the index part present exactly when n > 1.
C6_IndexBeforeExtension ==
    opt.output = << >> =>
        \A name \in DOMAIN files :
            \E m \in 0..Len(args[1]) :
                /\ CutsAtLastDot(args[1], m)
                /\ \E sfx \in {<< >>, <<Dot>> \o to_string(files[name].dev)} :
                      /\ IsIndexPart(sfx, nDevice, files[name].dev)
                      /\ name = SubSeq(args[1], 1, m) \o sfx \o DotBin

\* C6, amended: without --output, the file of device dev is named
\* <basename>.bin[.<dev>]: the first source argument cut at its last '.'
\* (whole when it has none), then ".bin", then, exactly when n > 1, "." and
\* the decimal zero-based device index.
C6_IndexAfterExtension ==
    opt.output = << >> =>
        \A name \in DOMAIN files :
            \E m \in 0..Len(args[1]) :
                /\ CutsAtLastDot(args[1], m)
                /\ Len(name) >= m + Len(DotBin)
                /\ SubSeq(name, 1, m) = SubSeq(args[1], 1, m)
                /\ SubSeq(name, m + 1, m + Len(DotBin)) = DotBin
                /\ IsIndexPart(SubSeq(name, m + Len(DotBin) + 1, Len(name)),
                               nDevice, files[name].dev)

\* C6 witness: no --output, two sources, the first with two dots, several
\* devices of which only one has a binary, and its file written
C6_Witness ==
    /\ LoopFinished
    /\ opt.output = << >>
    /\ Len(args) = 2
    /\ Cardinality({k \in DOMAIN args[1] : args[1][k] = Dot}) = 2
    /\ nDevice > 1
    /\ Cardinality(NonEmptyDevices) = 1
    /\ Cardinality(DOMAIN files) = 1

-----------------------------------------------------------------------------
(* C7 *)

\* C7: with more than one device, the files opened for two different
\* devices have different names, so every opened file is a file of its own.
C7_NamesPairwiseDistinct ==
    nDevice > 1 =>
        /\ \A j, k \in DOMAIN opens :
              (j # k /\ opens[j].ok /\ opens[k].ok)
                  => opens[j].name # opens[k].name
        /\ Cardinality(DOMAIN files) = Cardinality(OpenedDevices)

\* C7 witness: two files written in a run over several devices, one of
\* them without a binary
C7_Witness ==
    /\ LoopFinished
    /\ nDevice > 1
    /\ Cardinality(NonEmptyDevices) < nDevice
    /\ Cardinality(OpenedDevices) >= 2

-----------------------------------------------------------------------------
(* C8 *)

\* C8: with --output, every file's name is the given name followed, exactly
\* when n > 1, by "." and the device index; no part of it comes from a
\* source file name.
C8_OutputNameOverrides ==
    opt.output # << >> =>
        \A name \in DOMAIN files :
            /\ Len(name) >= Len(opt.output)
            /\ SubSeq(name, 1, Len(opt.output)) = opt.output
            /\ IsIndexPart(SubSeq(name, Len(opt.output) + 1, Len(name)),
                           nDevice, files[name].dev)

\* C8 witness: --output given, several devices, a file written whose name
\* differs from the name the source would have given
C8_Witness ==
    /\ LoopFinished
    /\ opt.output # << >>
    /\ nDevice > 1
    /\ \E name \in DOMAIN files :
          /\ files[name].dev > 0
          /\ name # removeSuffix(args[1]) \o DotBin \o <<Dot>>
                       \o to_string(files[name].dev)

-----------------------------------------------------------------------------
(* C9 *)

\* C9, as stated: a run that reached the write loop ends with EXIT_FAILURE
\* when every device with a binary failed to have its file opened, and with
\* EXIT_SUCCESS otherwise.
C9_FailsWhenEveryWriteFailed ==
    LoopFinished =>
        exitCode = IF NonEmptyDevices # {} /\ OpenedDevices = {}
                   THEN <<EXIT_FAILURE>> ELSE <<EXIT_SUCCESS>>

-----------------------------------------------------------------------------
(* C10 *)

\* C10, as stated: a non-success status the message table lacks ends the
\* run with EXIT_FAILURE and a message that was rendered (the lookup did
\* not throw) and shows the numeric code.
C10_UnknownCodeRendered ==
    \A k \in DOMAIN calls :
        calls[k].err \notin DOMAIN kErrorMessageMap =>
            /\ Done
            /\ exitCode = <<EXIT_FAILURE>>
            /\ stderr # << >>
            /\ stderr[Len(stderr)].type = "runtime_error"
            /\ calls[k].err \in stderr[Len(stderr)].codes


-----------------------------------------------------------------------------
(* C4 *)

\* the steps of a verifier run, in the order the claim gives them
StepOrder ==
    <<"clEnqueueWriteBuffer(deviceX)", "clEnqueueWriteBuffer(deviceY)",
      "clEnqueueWriteBuffer(deviceZ)",
      "clSetKernelArg(deviceZ)", "clSetKernelArg(deviceX)",
      "clSetKernelArg(deviceY)", "clSetKernelArg(N)",
      "clEnqueueTask", "clFlush", "clFinish",
      "clEnqueueReadBuffer(deviceZ)">>
StepCalls == {k \in DOMAIN vcalls : vcalls[k].api \in Range(StepOrder)}
StepRank(api) == CHOOSE r \in DOMAIN StepOrder : StepOrder[r] = api
ReadBackCalls ==
    {k \in DOMAIN vcalls : vcalls[k].api = "clEnqueueReadBuffer(deviceZ)"}

\* C4: the steps are issued in the order transfers, argument binding, task
\* enqueue, flush, finish, read-back, each at most once and none skipped; a
\* step is issued only when every step before it has returned CL_SUCCESS;
\* when the read-back is issued, clFinish has returned CL_SUCCESS and no
\* earlier call of the run reported a failure.
C4_ReadBackAfterFinish ==
    /\ \A k \in StepCalls :
          /\ {StepRank(vcalls[j].api) : j \in {i \in StepCalls : i < k}}
                = 1..(StepRank(vcalls[k].api) - 1)
          /\ \A j \in StepCalls :
                j < k => /\ StepRank(vcalls[j].api) < StepRank(vcalls[k].api)
                         /\ vcalls[j].err = CL_SUCCESS
    /\ \A k \in ReadBackCalls :
          /\ \E j \in 1..(k - 1) :
                vcalls[j].api = "clFinish" /\ vcalls[j].err = CL_SUCCESS
          /\ \A j \in 1..(k - 1) : vcalls[j].err = CL_SUCCESS

\* C4 witness: the read-back has been issued and has returned
C4_Witness ==
    /\ ReadBackCalls # {}
    /\ vpc = "verify"
    /\ hostZ = devMem["deviceZ"]

-----------------------------------------------------------------------------
(* C5 *)

\* element e is within the tolerance: |hostZ[e] - (hostX[e] + hostY[e])| <= 1e-5
WithinTolerance(e) ==
    FLessEq(FAbs(FSub(hostZ[e], FAdd(hostX[e], hostY[e]))), Tolerance)
OutOfTolerance == {e \in Elems : ~WithinTolerance(e)}
Verified == vpc = "done" /\ \E k \in ReadBackCalls : vcalls[k].err = CL_SUCCESS
FailureLine(e) == VLine("Result verification failed at element", {e})
PassLine == VLine("Test PASSED", {})

\* C5, as stated: after the comparison loop, if some element is out of tolerance the
\* run has reported the smallest such index, not printed the pass line and
\* ended with EXIT_FAILURE; if none is, it has printed "Test PASSED" and
\* ended with EXIT_SUCCESS.
C5_FirstViolationReported ==
    Verified =>
        IF OutOfTolerance # {}
        THEN /\ \E e \in OutOfTolerance :
                   /\ \A f \in OutOfTolerance : e <= f
                   /\ vout = <<FailureLine(e)>>
             /\ vexit = <<EXIT_FAILURE>>
        ELSE /\ vout = <<PassLine>>
             /\ vexit = <<EXIT_SUCCESS>>

\* C5, restricted to outputs without NaN: this much line 252 guarantees
C5_FirstViolationReportedUnlessNaN ==
    (Verified /\ \A e \in Elems : ~hostZ[e].nan) => C5_FirstViolationReported


-----------------------------------------------------------------------------
(* C11 *)

Exited == vpc = "done"
HeldHandles == {h \in DOMAIN handles : handles[h] = "held"}
\* the process ended in std::exit at line 217
ExitedAtUnreadableArtifact ==
    /\ Exited
    /\ vout # << >>
    /\ vout[Len(vout)] = VLine("Failed to kernel binary: ", {})

\* C11, as stated: when the process has ended, on whatever path, no handle
\* that was acquired is still unreleased.
C11_HandlesReleasedOnEveryExit == Exited => HeldHandles = {}

\* C11, on the paths that leave main by return: normal completion and every
\* failing runtime call release what was acquired
C11_HandlesReleasedOnReturn ==
    (Exited /\ ~ExitedAtUnreadableArtifact) => HeldHandles = {}

-----------------------------------------------------------------------------
(* C12 *)

DeviceCalls == CallsOf("clCreateContext") \cup CallsOf("clBuildProgram")

\* C12, as stated: with a device index below the number of enumerated
\* devices, every position handed to clCreateContext and clBuildProgram is
\* a position of an enumerated device.
C12_DevicesInsideEnumeration ==
    opt.device < Len(deviceIds) =>
        \A k \in DeviceCalls :
            \A p \in calls[k].devs : p < Len(deviceIds)

\* C12, for device index 0: this much lines 236 and 258 guarantee
C12_DevicesInsideEnumerationAtZero ==
    opt.device = 0 =>
        \A k \in DeviceCalls :
            /\ calls[k].devs = 0..(Len(deviceIds) - 1)
            /\ \A p \in calls[k].devs : p < Len(deviceIds)

=============================================================================
